---- MODULE Spec2Model ----
(***************************************************************************)
(* Model of the Hijab Marriage Bureau application: the profile lifecycle   *)
(* (create / edit / review / publish / photos), the public listing paths   *)
(* and the payment verification routes, as implemented by the Express      *)
(* route handlers over the Mongoose models.                                *)
(***************************************************************************)
EXTENDS Integers, Sequences, FiniteSets, TLC

VARIABLES
    users,      \* User collection: user id -> [isActive, isPaid, role, profileCompleted]
    session,    \* req.session.user of each user's browser, or NoSession
    profiles,   \* RishtaProfile collection, in insertion (createdAt) order
    payments,   \* Payment collection, in insertion order
    uploaded,   \* Image Store: identifiers that were uploaded
    deleted,    \* Image Store: identifiers for which a destroy was issued
    nextFile,   \* last identifier handed out by the Image Store
    reqs,       \* requests suspended at an await: slot -> locals
    response    \* the response of the last completed request

vars == <<users, session, profiles, payments, uploaded, deleted, nextFile, reqs, response>>

----------------------------------------------------------------------------
(* Bounds of the model *)

MaxUploads == 3      \* files the Image Store hands out in one behaviour
MaxFiles == 2        \* files sent with one request
MaxPayments == 2     \* payment records submitted in one behaviour
MaxViews == 1        \* public views counted per profile

(* Program constants *)

BrowseLimit == 12
HomeLimit == 6
MinAge == 18
MaxAge == 80

----------------------------------------------------------------------------
(* Identities *)

Owners == {"u1", "u2"}
Admins == {"a1"}
Users == Owners \cup {"u3"} \cup Admins
Anon == "anon"                 \* a browser without a session
Callers == Users \cup {Anon}
NoUser == "none"
NoSession == [role |-> "none", isPaid |-> FALSE, profileCompleted |-> FALSE]

SessionOf(c) == IF c \in Users THEN session[c] ELSE NoSession

(* Strings the code transforms are sequences of characters. *)
RECURSIVE TrimLeft(_)
TrimLeft(s) == IF s # <<>> /\ Head(s) = " " THEN TrimLeft(Tail(s)) ELSE s

RECURSIVE TrimRight(_)
TrimRight(s) ==
    IF s # <<>> /\ s[Len(s)] = " " THEN TrimRight(SubSeq(s, 1, Len(s) - 1)) ELSE s

Trim(s) == TrimRight(TrimLeft(s))

ToLower(ch) == IF ch = "L" THEN "l" ELSE IF ch = "K" THEN "k" ELSE ch
LowerCase(s) == [i \in 1..Len(s) |-> ToLower(s[i])]

(* new RegExp(q, 'i').test(s) for a q without metacharacters *)
RegExpI(q, s) ==
    \E i \in 0..(Len(s) - Len(q)) :
        LowerCase(SubSeq(s, i + 1, i + Len(q))) = LowerCase(q)

(* An optional value is the empty set (undefined) or a singleton. *)
Undefined == {}
Some(v) == {v}
ValueOf(o) == CHOOSE v \in o : TRUE

----------------------------------------------------------------------------
(* Middleware *)

isAuthenticated(c) == SessionOf(c) # NoSession

(* Faulty variant: the role is read from the stored user, not from the session *)
isAdmin_StoredRole(c) == SessionOf(c) # NoSession /\ users[c].role = "admin"

isAdmin(c) == SessionOf(c) # NoSession /\ SessionOf(c).role = "admin"

(* Faulty variant: the paid flag is read from the session, not from the store *)
hasPaid_FromSession(c) ==
    IF SessionOf(c) = NoSession THEN "login"
    ELSE IF ~SessionOf(c).isPaid THEN "payments"
    ELSE "next"

(* "login" / "payments" redirect, or "next".  No route deletes a user, so
   User.findById always finds the session's user. *)
hasPaid(c) ==
    IF SessionOf(c) = NoSession THEN "login"
    ELSE IF ~users[c].isPaid THEN "payments"
    ELSE "next"

(* Outcome of the isAuthenticated, hasPaid chain of the profile routes *)
OwnerGate(c) == IF ~isAuthenticated(c) THEN "login" ELSE hasPaid(c)

(* Outcome of the isAuthenticated, isAdmin chain of the admin routes *)
AdminGate(c) ==
    IF ~isAuthenticated(c) THEN "login"
    ELSE IF ~isAdmin(c) THEN "denied"
    ELSE "next"

----------------------------------------------------------------------------
(* RishtaProfile documents *)

Genders == {"male", "female"}
Lahore == <<"L", "a", "h">>
Karachi == <<"K", "a", "r">>

(* profileValidation: the rules on the fields the model carries *)
profileValidation(body) ==
    /\ body.age >= MinAge /\ body.age <= MaxAge
    /\ body.gender \in Genders
    /\ Trim(body.city) # <<>>

(* Faulty variant: the query does not restrict the owner *)
FindOneByUser_AnyOwner(u) == IF Len(profiles) > 0 THEN 1 ELSE 0

(* RishtaProfile.findOne({ userId }): the first match, 0 if none *)
FindOneByUser(u) ==
    IF \E i \in 1..Len(profiles) : profiles[i].userId = u
    THEN CHOOSE i \in 1..Len(profiles) :
            /\ profiles[i].userId = u
            /\ \A j \in 1..(i - 1) : profiles[j].userId # u
    ELSE 0

(* RishtaProfile.findById(id): 0 if none *)
FindById(id) == IF id \in 1..Len(profiles) THEN id ELSE 0

(* The identifiers multer-storage-cloudinary returns for n uploaded files *)
Files(n) == [i \in 1..n |-> nextFile + i]
FileSet(n) == {nextFile + i : i \in 1..n}

(* /create: req.files.forEach((file, index) => photos.push(...)) *)
CreatePhotos(files) ==
    [i \in 1..Len(files) |-> [id |-> files[i], isPrimary |-> (i = 1)]]

(* Faulty variant: the first new photo is primary whatever the collection holds *)
NewPhotos_FirstAlwaysPrimary(existing, files) ==
    [i \in 1..Len(files) |-> [id |-> files[i], isPrimary |-> (i = 1)]]

(* /edit: newPhotos, primary only if there are no existing photos *)
NewPhotos(existing, files) ==
    [i \in 1..Len(files) |->
        [id |-> files[i], isPrimary |-> (Len(existing) = 0 /\ i = 1)]]

(* Faulty variant: the route leaves the status to the schema default *)
NewProfile_SchemaStatus(id, u, body, photos) ==
    [id |-> id, userId |-> u,
     gender |-> body.gender, city |-> body.city, age |-> body.age,
     photos |-> photos,
     status |-> "draft",
     published |-> FALSE,
     approvedBy |-> NoUser, approvedAt |-> FALSE,
     rejectionReason |-> Undefined,
     views |-> 0]

(* new RishtaProfile(profileData) with the schema defaults *)
NewProfile(id, u, body, photos) ==
    [id |-> id, userId |-> u,
     gender |-> body.gender, city |-> body.city, age |-> body.age,
     photos |-> photos,
     status |-> "submitted",
     published |-> FALSE,
     approvedBy |-> NoUser, approvedAt |-> FALSE,
     rejectionReason |-> Undefined,
     views |-> 0]

(* Faulty variant: the edit resets the status but not published *)
EditApply_KeepsPublished(doc, body, files) ==
    [doc EXCEPT
        !.gender = body.gender, !.city = body.city, !.age = body.age,
        !.photos = IF Len(files) > 0 THEN doc.photos \o NewPhotos(doc.photos, files)
                   ELSE doc.photos,
        !.status = "submitted"]

(* Faulty variant: the uploads replace the stored photos *)
EditApply_ReplacesPhotos(doc, body, files) ==
    [doc EXCEPT
        !.gender = body.gender, !.city = body.city, !.age = body.age,
        !.photos = IF Len(files) > 0 THEN NewPhotos(<<>>, files)
                   ELSE doc.photos,
        !.status = "submitted",
        !.published = FALSE]

(* /edit: the assignments to the loaded document *)
EditApply(doc, body, files) ==
    [doc EXCEPT
        !.gender = body.gender, !.city = body.city, !.age = body.age,
        !.photos = IF Len(files) > 0 THEN doc.photos \o NewPhotos(doc.photos, files)
                   ELSE doc.photos,
        !.status = "submitted",
        !.published = FALSE]

----------------------------------------------------------------------------
(* Responses *)

Respond(op, c, outcome, docs) ==
    response' = [op |-> op, caller |-> c, outcome |-> outcome, docs |-> docs]

NoResponse == [op |-> "none", caller |-> Anon, outcome |-> "none", docs |-> <<>>]

----------------------------------------------------------------------------
(* POST /profiles/create *)

(* Faulty variant: no existence check *)
CreateOutcome_NoExistenceCheck(c, body, fail) ==
    IF OwnerGate(c) # "next" THEN OwnerGate(c)
    ELSE IF ~profileValidation(body) THEN "validation_error"
    ELSE IF fail THEN "error"
    ELSE "ok"

CreateOutcome(c, body, fail) ==
    IF OwnerGate(c) # "next" THEN OwnerGate(c)
    ELSE IF ~profileValidation(body) THEN "validation_error"
    ELSE IF FindOneByUser(c) # 0 THEN "conflict"
    ELSE IF fail THEN "error"
    ELSE "ok"

PostCreate(c, body, n, fail) ==
    LET out == CreateOutcome(c, body, fail)
        sent == out \notin {"login", "payments"}     \* uploadMultiple ran
        doc == NewProfile(Len(profiles) + 1, c, body, CreatePhotos(Files(n)))
    IN  /\ nextFile + n <= MaxUploads
        /\ nextFile' = IF sent THEN nextFile + n ELSE nextFile
        /\ uploaded' = IF sent THEN uploaded \cup FileSet(n) ELSE uploaded
        /\ deleted' = IF out \in {"validation_error", "error"}
                      THEN deleted \cup FileSet(n) ELSE deleted
        /\ profiles' = IF out = "ok" THEN Append(profiles, doc) ELSE profiles
        /\ users' = IF out = "ok"
                    THEN [users EXCEPT ![c].profileCompleted = TRUE] ELSE users
        /\ session' = IF out = "ok"
                      THEN [session EXCEPT ![c].profileCompleted = TRUE] ELSE session
        /\ Respond("create", c, out, IF out = "ok" THEN <<doc>> ELSE <<>>)
        /\ UNCHANGED <<payments, reqs>>

----------------------------------------------------------------------------
(* POST /profiles/edit *)

EditOutcome(c, body, fail) ==
    IF OwnerGate(c) # "next" THEN OwnerGate(c)
    ELSE IF ~profileValidation(body) THEN "validation_error"
    ELSE IF FindOneByUser(c) = 0 THEN "no_profile"
    ELSE IF fail THEN "error"
    ELSE "ok"

PostEdit(c, body, n, fail) ==
    LET out == EditOutcome(c, body, fail)
        sent == out \notin {"login", "payments"}
        i == FindOneByUser(c)
    IN  /\ nextFile + n <= MaxUploads
        /\ nextFile' = IF sent THEN nextFile + n ELSE nextFile
        /\ uploaded' = IF sent THEN uploaded \cup FileSet(n) ELSE uploaded
        /\ deleted' = IF out \in {"validation_error", "error"}
                      THEN deleted \cup FileSet(n) ELSE deleted
        /\ profiles' = IF out = "ok"
                       THEN [profiles EXCEPT ![i] = EditApply(profiles[i], body, Files(n))]
                       ELSE profiles
        /\ Respond("edit", c, out, IF out = "ok" THEN <<profiles'[i]>> ELSE <<>>)
        /\ UNCHANGED <<users, session, payments, reqs>>

----------------------------------------------------------------------------
(* DELETE /profiles/photo/:photoId and PUT /profiles/photo/:photoId/primary *)

(* profile.photos.id(photoId): the position of the photo, 0 if none *)
PhotoIndex(photos, pid) ==
    IF \E k \in 1..Len(photos) : photos[k].id = pid
    THEN CHOOSE k \in 1..Len(photos) : photos[k].id = pid
    ELSE 0

(* profile.photos.pull(photoId) *)
Pull(photos, pid) == SelectSeq(photos, LAMBDA ph : ph.id # pid)

(* Faulty variant: the photo is not looked up before the removal *)
PhotoOutcome_NoLookup(c, pid) ==
    IF OwnerGate(c) # "next" THEN OwnerGate(c)
    ELSE IF FindOneByUser(c) = 0 THEN "no_profile"
    ELSE "ok"

PhotoOutcome(c, pid) ==
    IF OwnerGate(c) # "next" THEN OwnerGate(c)
    ELSE IF FindOneByUser(c) = 0 THEN "no_profile"
    ELSE IF PhotoIndex(profiles[FindOneByUser(c)].photos, pid) = 0 THEN "photo_not_found"
    ELSE "ok"

DeletePhoto(c, pid) ==
    LET out == PhotoOutcome(c, pid)
        i == FindOneByUser(c)
    IN  /\ deleted' = IF out = "ok" THEN deleted \cup {pid} ELSE deleted
        /\ profiles' = IF out = "ok"
                       THEN [profiles EXCEPT ![i].photos = Pull(@, pid)]
                       ELSE profiles
        /\ Respond("deletePhoto", c, out, <<>>)
        /\ UNCHANGED <<users, session, payments, uploaded, nextFile, reqs>>

(* photos.forEach(photo => photo.isPrimary = false); then the selected one, if
   it is found, becomes primary *)
SetPrimary(photos, pid) ==
    [k \in 1..Len(photos) |-> [photos[k] EXCEPT !.isPrimary = (photos[k].id = pid)]]

(* The route answers success whether or not the photo was found. *)
PrimaryOutcome(c, pid) ==
    IF OwnerGate(c) # "next" THEN OwnerGate(c)
    ELSE IF FindOneByUser(c) = 0 THEN "no_profile"
    ELSE "ok"

PutPrimary(c, pid) ==
    LET out == PrimaryOutcome(c, pid)
        i == FindOneByUser(c)
    IN  /\ profiles' = IF out = "ok"
                       THEN [profiles EXCEPT ![i].photos = SetPrimary(@, pid)]
                       ELSE profiles
        /\ Respond("setPrimary", c, out, <<>>)
        /\ UNCHANGED <<users, session, payments, uploaded, deleted, nextFile, reqs>>

----------------------------------------------------------------------------
(* POST /admin/profiles/:id/review *)

(* Faulty variant: the reason is stored as sent *)
StoredReason_Untrimmed(reason) == reason

(* The schema stores rejectionReason trimmed. *)
StoredReason(reason) ==
    IF reason = Undefined THEN Undefined ELSE Some(Trim(ValueOf(reason)))

(* Faulty variant: approve flips published instead of setting it *)
ReviewApply_ApproveFlips(doc, action, reason, admin) ==
    IF action = "approve"
    THEN [doc EXCEPT !.status = "approved", !.published = ~doc.published,
                     !.approvedBy = admin, !.approvedAt = TRUE,
                     !.rejectionReason = Undefined]
    ELSE IF action = "reject"
    THEN [doc EXCEPT !.status = "rejected", !.published = FALSE,
                     !.rejectionReason = StoredReason(reason),
                     !.approvedBy = admin, !.approvedAt = TRUE]
    ELSE doc

ReviewApply(doc, action, reason, admin) ==
    IF action = "approve"
    THEN [doc EXCEPT !.status = "approved", !.published = TRUE,
                     !.approvedBy = admin, !.approvedAt = TRUE,
                     !.rejectionReason = Undefined]
    ELSE IF action = "reject"
    THEN [doc EXCEPT !.status = "rejected", !.published = FALSE,
                     !.rejectionReason = StoredReason(reason),
                     !.approvedBy = admin, !.approvedAt = TRUE]
    ELSE doc

ReviewOutcome(c, id) ==
    IF AdminGate(c) # "next" THEN AdminGate(c)
    ELSE IF FindById(id) = 0 THEN "not_found"
    ELSE "ok"

PostReview(c, id, action, reason) ==
    LET out == ReviewOutcome(c, id)
    IN  /\ profiles' = IF out = "ok"
                       THEN [profiles EXCEPT ![id] = ReviewApply(@, action, reason, c)]
                       ELSE profiles
        /\ Respond(action, c, out, IF out = "ok" THEN <<profiles'[id]>> ELSE <<>>)
        /\ UNCHANGED <<users, session, payments, uploaded, deleted, nextFile, reqs>>

----------------------------------------------------------------------------
(* POST /admin/profiles/:id/publish *)

(* Faulty variant: publishes instead of toggling *)
PublishApply_SetsPublished(doc) == [doc EXCEPT !.published = TRUE]

PublishApply(doc) == [doc EXCEPT !.published = ~doc.published]

(* Faulty variant: no status check *)
PublishOutcome_NoStatusCheck(c, id) ==
    IF AdminGate(c) # "next" THEN AdminGate(c)
    ELSE IF FindById(id) = 0 THEN "not_found"
    ELSE "ok"

PublishOutcome(c, id) ==
    IF AdminGate(c) # "next" THEN AdminGate(c)
    ELSE IF FindById(id) = 0 THEN "not_found"
    ELSE IF profiles[id].status # "approved" THEN "precondition_failed"
    ELSE "ok"

PostPublish(c, id) ==
    LET out == PublishOutcome(c, id)
    IN  /\ profiles' = IF out = "ok"
                       THEN [profiles EXCEPT ![id] = PublishApply(@)]
                       ELSE profiles
        /\ Respond("publish", c, out, IF out = "ok" THEN <<profiles'[id]>> ELSE <<>>)
        /\ UNCHANGED <<users, session, payments, uploaded, deleted, nextFile, reqs>>

----------------------------------------------------------------------------
(* Public paths: GET /, GET /browse, GET /profile/:id *)

(* Faulty variant: the filter forgets published: true *)
PublicFilter_StatusOnly(d) == d.status = "approved"

(* { published: true, status: 'approved' } *)
PublicFilter(d) == d.published = TRUE /\ d.status = "approved"

(* The filter object /browse builds from req.query *)
BrowseFilter(q, d) ==
    /\ PublicFilter(d)
    /\ q.gender # Undefined => d.gender = ValueOf(q.gender)
    /\ q.city # Undefined => RegExpI(ValueOf(q.city), d.city)
    /\ q.minAge # Undefined => d.age >= ValueOf(q.minAge)
    /\ q.maxAge # Undefined => d.age <= ValueOf(q.maxAge)

Reverse(s) == [k \in 1..Len(s) |-> s[Len(s) + 1 - k]]

Min(a, b) == IF a < b THEN a ELSE b

(* find(filter).sort({ createdAt: -1 }).skip(skip).limit(limit) *)
Find(matching, skip, limit) ==
    LET all == Reverse(matching)
    IN  SubSeq(all, skip + 1, Min(Len(all), skip + limit))

(* parseInt(req.query.page) || 1 *)
PageOf(q) == IF q.page = Undefined \/ ValueOf(q.page) = 0 THEN 1 ELSE ValueOf(q.page)

GetHome ==
    /\ Respond("home", Anon, "ok", Find(SelectSeq(profiles, PublicFilter), 0, HomeLimit))
    /\ UNCHANGED <<users, session, profiles, payments, uploaded, deleted, nextFile, reqs>>

(* A negative skip makes the query throw; the catch renders an empty page 1. *)
GetBrowse(q) ==
    LET skip == (PageOf(q) - 1) * BrowseLimit
    IN  /\ IF skip < 0
           THEN Respond("browse", Anon, "error", <<>>)
           ELSE Respond("browse", Anon, "ok",
                        Find(SelectSeq(profiles, LAMBDA d : BrowseFilter(q, d)),
                             skip, BrowseLimit))
        /\ UNCHANGED <<users, session, profiles, payments, uploaded, deleted, nextFile, reqs>>

(* findOne({ _id, published: true, status: 'approved' }) *)
FindPublicById(id) ==
    IF FindById(id) # 0 /\ PublicFilter(profiles[id]) THEN id ELSE 0

ViewApply(doc) == [doc EXCEPT !.views = doc.views + 1]

GetProfile(id) ==
    LET i == FindPublicById(id)
    IN  /\ i # 0 => profiles[i].views < MaxViews
        /\ profiles' = IF i # 0 THEN [profiles EXCEPT ![i] = ViewApply(@)] ELSE profiles
        /\ Respond("view", Anon, IF i # 0 THEN "ok" ELSE "not_found",
                   IF i # 0 THEN <<profiles'[i]>> ELSE <<>>)
        /\ UNCHANGED <<users, session, payments, uploaded, deleted, nextFile, reqs>>

----------------------------------------------------------------------------
(* Requests suspended at an await.  A handler that other requests can overtake
   is a sequence of steps, one per document-store call; its locals live in a
   slot of reqs between the steps. *)

Slots == {"r1", "r2"}

Idle == [op |-> "idle", pc |-> "idle", caller |-> Anon,
         body |-> <<>>, files |-> <<>>]

Suspend(s, op, pc, c, body, files) ==
    reqs' = [reqs EXCEPT ![s] =
                [op |-> op, pc |-> pc, caller |-> c, body |-> body, files |-> files]]

Resume(s, pc) == reqs' = [reqs EXCEPT ![s].pc = pc]

Finish(s) == reqs' = [reqs EXCEPT ![s] = Idle]

At(s, op, pc) == reqs[s].op = op /\ reqs[s].pc = pc

Range(f) == {f[k] : k \in 1..Len(f)}

(* POST /profiles/create up to "await RishtaProfile.findOne": the middleware,
   the validation and the existence check *)
CreateFind(s, c, body, n) ==
    LET out == CreateOutcome(c, body, FALSE)
        sent == out \notin {"login", "payments"}
    IN  /\ reqs[s] = Idle
        /\ nextFile + n <= MaxUploads
        /\ nextFile' = IF sent THEN nextFile + n ELSE nextFile
        /\ uploaded' = IF sent THEN uploaded \cup FileSet(n) ELSE uploaded
        /\ deleted' = IF out = "validation_error"
                      THEN deleted \cup FileSet(n) ELSE deleted
        /\ IF out = "ok"
           THEN Suspend(s, "create", "save", c, body, Files(n)) /\ UNCHANGED response
           ELSE Respond("create", c, out, <<>>) /\ UNCHANGED reqs
        /\ UNCHANGED <<users, session, profiles, payments>>

(* "await profile.save()": the insert, or the catch block when it throws *)
CreateSave(s, fail) ==
    LET r == reqs[s]
        doc == NewProfile(Len(profiles) + 1, r.caller, r.body, CreatePhotos(r.files))
    IN  /\ At(s, "create", "save")
        /\ IF fail
           THEN /\ deleted' = deleted \cup Range(r.files)
                /\ Respond("create", r.caller, "error", <<>>)
                /\ Finish(s)
                /\ UNCHANGED profiles
           ELSE /\ profiles' = Append(profiles, doc)
                /\ Resume(s, "update")
                /\ UNCHANGED <<deleted, response>>
        /\ UNCHANGED <<users, session, payments, uploaded, nextFile>>

(* "await User.findByIdAndUpdate", the session update and the redirect *)
CreateUpdate(s) ==
    LET r == reqs[s]
    IN  /\ At(s, "create", "update")
        /\ users' = [users EXCEPT ![r.caller].profileCompleted = TRUE]
        /\ session' = [session EXCEPT ![r.caller].profileCompleted = TRUE]
        /\ Respond("create", r.caller, "ok", <<>>)
        /\ Finish(s)
        /\ UNCHANGED <<profiles, payments, uploaded, deleted, nextFile>>

(* A request suspended between loading a document and saving it: doc is the
   document as it was loaded, input what the request carries. *)
Hold(s, op, c, input, doc) ==
    reqs' = [reqs EXCEPT ![s] =
                [op |-> op, pc |-> "save", caller |-> c, body |-> input,
                 files |-> <<>>, doc |-> doc]]

(* doc.save() of a loaded document: the paths whose value the handler changed
   are written over the stored document, the other paths are left as stored. *)
SaveChanged(stored, loaded, updated) ==
    [f \in DOMAIN stored |->
        IF updated[f] # loaded[f] THEN updated[f] ELSE stored[f]]

(* POST /profiles/edit without uploads, up to "await RishtaProfile.findOne" *)
EditFind(s, c, body) ==
    LET out == EditOutcome(c, body, FALSE)
    IN  /\ reqs[s] = Idle
        /\ IF out = "ok"
           THEN Hold(s, "edit", c, body, profiles[FindOneByUser(c)])
                /\ UNCHANGED response
           ELSE Respond("edit", c, out, <<>>) /\ UNCHANGED reqs
        /\ UNCHANGED <<users, session, profiles, payments, uploaded, deleted, nextFile>>

(* the assignments and "await profile.save()" of /edit *)
EditSave(s) ==
    LET r == reqs[s]
        i == r.doc.id
    IN  /\ At(s, "edit", "save")
        /\ profiles' = [profiles EXCEPT
                           ![i] = SaveChanged(@, r.doc, EditApply(r.doc, r.body, <<>>))]
        /\ Respond("edit", r.caller, "ok", <<profiles'[i]>>)
        /\ Finish(s)
        /\ UNCHANGED <<users, session, payments, uploaded, deleted, nextFile>>

(* POST /admin/profiles/:id/review up to "await RishtaProfile.findById" *)
ReviewFind(s, c, id, action, reason) ==
    LET out == ReviewOutcome(c, id)
    IN  /\ reqs[s] = Idle
        /\ IF out = "ok"
           THEN Hold(s, "review", c, <<action, reason>>, profiles[id])
                /\ UNCHANGED response
           ELSE Respond(action, c, out, <<>>) /\ UNCHANGED reqs
        /\ UNCHANGED <<users, session, profiles, payments, uploaded, deleted, nextFile>>

(* the assignments and "await profile.save()" of /review *)
ReviewSave(s) ==
    LET r == reqs[s]
        i == r.doc.id
    IN  /\ At(s, "review", "save")
        /\ profiles' = [profiles EXCEPT
                           ![i] = SaveChanged(@, r.doc,
                                      ReviewApply(r.doc, r.body[1], r.body[2], r.caller))]
        /\ Respond(r.body[1], r.caller, "ok", <<profiles'[i]>>)
        /\ Finish(s)
        /\ UNCHANGED <<users, session, payments, uploaded, deleted, nextFile>>

(* POST /admin/profiles/:id/publish up to the status test on the loaded
   document *)
PublishFind(s, c, id) ==
    LET out == PublishOutcome(c, id)
    IN  /\ reqs[s] = Idle
        /\ IF out = "ok"
           THEN Hold(s, "publish", c, <<>>, profiles[id]) /\ UNCHANGED response
           ELSE Respond("publish", c, out, <<>>) /\ UNCHANGED reqs
        /\ UNCHANGED <<users, session, profiles, payments, uploaded, deleted, nextFile>>

(* profile.published = !profile.published; await profile.save() *)
PublishSave(s) ==
    LET r == reqs[s]
        i == r.doc.id
    IN  /\ At(s, "publish", "save")
        /\ profiles' = [profiles EXCEPT
                           ![i] = SaveChanged(@, r.doc, PublishApply(r.doc))]
        /\ Respond("publish", r.caller, "ok", <<profiles'[i]>>)
        /\ Finish(s)
        /\ UNCHANGED <<users, session, payments, uploaded, deleted, nextFile>>

(* GET /profile/:id up to "await RishtaProfile.findOne" *)
ViewFind(s, id) ==
    LET i == FindPublicById(id)
    IN  /\ reqs[s] = Idle
        /\ i # 0 => profiles[i].views < MaxViews
        /\ IF i # 0
           THEN Hold(s, "view", Anon, <<>>, profiles[i]) /\ UNCHANGED response
           ELSE Respond("view", Anon, "not_found", <<>>) /\ UNCHANGED reqs
        /\ UNCHANGED <<users, session, profiles, payments, uploaded, deleted, nextFile>>

(* profile.views += 1; await profile.save() *)
ViewSave(s) ==
    LET r == reqs[s]
        i == r.doc.id
    IN  /\ At(s, "view", "save")
        /\ profiles' = [profiles EXCEPT
                           ![i] = SaveChanged(@, r.doc, ViewApply(r.doc))]
        /\ Respond("view", Anon, "ok", <<profiles'[i]>>)
        /\ Finish(s)
        /\ UNCHANGED <<users, session, payments, uploaded, deleted, nextFile>>

----------------------------------------------------------------------------
UserDoc(role, paid) ==
    [isActive |-> TRUE, isPaid |-> paid, role |-> role, profileCompleted |-> FALSE]

SessionFor(u) ==
    [role |-> users[u].role, isPaid |-> users[u].isPaid,
     profileCompleted |-> users[u].profileCompleted]

InitStore ==
    /\ profiles = <<>>
    /\ payments = <<>>
    /\ uploaded = {}
    /\ deleted = {}
    /\ nextFile = 0
    /\ reqs = [s \in Slots |-> Idle]
    /\ response = NoResponse

(* Registered accounts: u1 and u2 have paid, u3 has not, a1 is the administrator;
   all four are logged in. *)
Init ==
    /\ users = [u \in Users |->
                  IF u \in Admins THEN UserDoc("admin", FALSE)
                  ELSE UserDoc("user", u \in Owners)]
    /\ session = [u \in Users |->
                  [role |-> IF u \in Admins THEN "admin" ELSE "user",
                   isPaid |-> u \in Owners, profileCompleted |-> FALSE]]
    /\ InitStore

Body(g, ct, a) == [gender |-> g, city |-> ct, age |-> a]

Bodies == {Body("female", Lahore, 25), Body("male", Karachi, 40),
           Body("female", Karachi, 17)}

OwnerCallers == Owners \cup {"u3"}
AdminCallers == Admins \cup {"u1"}

ReasonInputs == {Undefined, Some(<<"x">>), Some(<<" ", "x">>)}
ReviewActions == {"approve", "reject", "other"}
ProfileIds == 1..3

Query(g, ct, lo, hi, pg) ==
    [gender |-> g, city |-> ct, minAge |-> lo, maxAge |-> hi, page |-> pg]

Queries ==
    {Query(Undefined, Undefined, Undefined, Undefined, Undefined),
     Query(Some("female"), Some(<<"l", "a">>), Undefined, Undefined, Some(1)),
     Query(Undefined, Undefined, Some(20), Some(30), Some(0)),
     Query(Some("male"), Undefined, Some(30), Undefined, Undefined),
     Query(Undefined, Undefined, Undefined, Undefined, Some(2)),
     Query(Undefined, Undefined, Undefined, Undefined, Some(-1))}

(* approve and other actions ignore the reason *)
ReviewInputs ==
    {<<"approve", Undefined>>, <<"other", Undefined>>}
        \cup {<<"reject", r>> : r \in ReasonInputs}

(* Lifecycle and public listing, one request at a time, no uploads *)
Next ==
    \/ \E c \in OwnerCallers, body \in Bodies : PostCreate(c, body, 0, FALSE)
    \/ \E c \in OwnerCallers, body \in Bodies : PostEdit(c, body, 0, FALSE)
    \/ \E c \in AdminCallers, id \in ProfileIds, in \in ReviewInputs :
            PostReview(c, id, in[1], in[2])
    \/ \E c \in AdminCallers, id \in ProfileIds : PostPublish(c, id)
    \/ GetHome
    \/ \E q \in Queries : GetBrowse(q)
    \/ \E id \in ProfileIds : GetProfile(id)

Spec == Init /\ [][Next]_vars

----------------------------------------------------------------------------
(* Properties of the lifecycle and the public listing (Spec) *)

IsPublicOp == response.op \in {"home", "browse", "view"}

\* C1: every profile returned by a public path (home, /browse with any filters,
\* /profile/:id) is published and approved, both as returned and as stored.
C1_PublicOnlyPublishedApproved ==
    IsPublicOp =>
        \A k \in 1..Len(response.docs) :
            /\ response.docs[k].published = TRUE
            /\ response.docs[k].status = "approved"
            /\ profiles[response.docs[k].id].published = TRUE
            /\ profiles[response.docs[k].id].status = "approved"

\* C1 witness: /browse returned one profile while another, approved but
\* unpublished, stayed hidden.
C1_Witness ==
    /\ response.op = "browse"
    /\ Len(response.docs) = 1
    /\ \E i \in 1..Len(profiles) : profiles[i].status = "approved" /\ ~profiles[i].published

(* The caller of a create request that reached the existence check *)
ReachesExistenceCheck(c, body) == OwnerGate(c) = "next" /\ profileValidation(body)

\* C3 as stated: createProfile by a user who already owns a profile always ends
\* in conflict, creates no document and leaves the existing one unchanged.
C3_Original ==
    [][response'.op = "create" =>
        \A c \in OwnerCallers, body \in Bodies :
          (PostCreate(c, body, 0, FALSE) /\ FindOneByUser(c) # 0)
              => (response'.outcome = "conflict" /\ profiles' = profiles)]_vars

\* C3 amended: createProfile by a user who already owns a profile never creates
\* or changes a profile document, and ends in conflict whenever the request
\* passes the login and payment checks and its body passes validation
\* (an invalid body ends in a validation error instead).
C3_ConflictWhenValid ==
    [][response'.op = "create" =>
        \A c \in OwnerCallers, body \in Bodies :
          (PostCreate(c, body, 0, FALSE) /\ FindOneByUser(c) # 0)
              => /\ profiles' = profiles
                 /\ ReachesExistenceCheck(c, body) => response'.outcome = "conflict"
                 /\ ~profileValidation(body) => response'.outcome # "conflict"]_vars

\* C3 witness: a create request of a profile owner was answered with conflict.
C3_Witness ==
    /\ response.op = "create"
    /\ response.outcome = "conflict"
    /\ FindOneByUser(response.caller) # 0

\* C5: a successful owner edit leaves the profile submitted and unpublished,
\* whatever its status and published flag were.
C5_EditResets ==
    (response.op = "edit" /\ response.outcome = "ok") =>
        /\ profiles[FindOneByUser(response.caller)].status = "submitted"
        /\ profiles[FindOneByUser(response.caller)].published = FALSE

\* C5 witness: a successful edit of a profile that had been reviewed before.
C5_Witness ==
    /\ response.op = "edit"
    /\ response.outcome = "ok"
    /\ profiles[FindOneByUser(response.caller)].approvedAt = TRUE

(* The review request answered by response' was made on a submitted profile. *)
ReviewedSubmitted(action) ==
    /\ response'.op = action
    /\ response'.outcome = "ok"
    /\ profiles[response'.docs[1].id].status = "submitted"

ApproveEffects(before, after, c) ==
    /\ after.status = "approved"
    /\ after.published = TRUE
    /\ after.approvedBy = c
    /\ after.approvedAt = TRUE
    /\ after.rejectionReason = Undefined
    /\ after = [before EXCEPT !.status = after.status, !.published = after.published,
                              !.approvedBy = after.approvedBy,
                              !.approvedAt = after.approvedAt,
                              !.rejectionReason = after.rejectionReason]

RejectEffects(before, after, c) ==
    /\ after.status = "rejected"
    /\ after.published = FALSE
    /\ after.approvedBy = c
    /\ after.approvedAt = TRUE
    /\ after = [before EXCEPT !.status = after.status, !.published = after.published,
                              !.approvedBy = after.approvedBy,
                              !.approvedAt = after.approvedAt,
                              !.rejectionReason = after.rejectionReason]

Spaces(n) == [k \in 1..n |-> " "]

(* t is s without its leading and trailing blanks *)
IsTrimOf(t, s) ==
    /\ t = <<>> \/ (t[1] # " " /\ t[Len(t)] # " ")
    /\ \E i \in 0..Len(s), j \in 0..Len(s) : s = Spaces(i) \o t \o Spaces(j)

\* C6 as stated: approve on a submitted profile yields approved, published,
\* reviewer, timestamp, reason cleared; reject with x yields rejected,
\* unpublished, rejection reason = x, reviewer and timestamp.
C6_Original ==
    [][LET id == response'.docs[1].id
           c == response'.caller
       IN  /\ ReviewedSubmitted("approve")
                => ApproveEffects(profiles[id], profiles'[id], c)
           /\ ReviewedSubmitted("reject")
                => \A r \in ReasonInputs :
                      PostReview(c, id, "reject", r)
                         => /\ RejectEffects(profiles[id], profiles'[id], c)
                            /\ profiles'[id].rejectionReason = r]_vars

\* C6 amended: as stated, except that the stored rejection reason is x with its
\* leading and trailing whitespace removed (and absent when x is absent).
C6_ReviewEffects ==
    [][LET id == response'.docs[1].id
           c == response'.caller
       IN  /\ ReviewedSubmitted("approve")
                => ApproveEffects(profiles[id], profiles'[id], c)
           /\ ReviewedSubmitted("reject")
                => \A r \in ReasonInputs :
                      PostReview(c, id, "reject", r)
                         => /\ RejectEffects(profiles[id], profiles'[id], c)
                            /\ r = Undefined => profiles'[id].rejectionReason = Undefined
                            /\ r # Undefined =>
                                 /\ profiles'[id].rejectionReason # Undefined
                                 /\ IsTrimOf(ValueOf(profiles'[id].rejectionReason),
                                             ValueOf(r))]_vars

\* C6 witness: a profile was rejected with a reason by the administrator.
C6_Witness ==
    /\ response.op = "reject"
    /\ response.outcome = "ok"
    /\ response.docs[1].status = "rejected"
    /\ response.docs[1].rejectionReason = Some(<<"x">>)
    /\ response.docs[1].approvedBy = response.caller

\* C7: togglePublish on a profile that is not approved fails with
\* precondition_failed and leaves every profile unchanged.
C7_ToggleNeedsApproved ==
    [][response'.op = "publish" =>
        \A c \in AdminCallers, id \in ProfileIds :
          (/\ PostPublish(c, id)
           /\ AdminGate(c) = "next"
           /\ FindById(id) # 0
           /\ profiles[id].status # "approved")
              => (response'.outcome = "precondition_failed" /\ profiles' = profiles)]_vars

\* C7 witness: a toggle was refused while a rejected profile exists.
C7_Witness ==
    /\ response.op = "publish"
    /\ response.outcome = "precondition_failed"
    /\ \E i \in 1..Len(profiles) : profiles[i].status = "rejected"

\* C8: togglePublish on an approved profile negates published and changes
\* nothing else; toggling twice restores the document.
C8_ToggleFlipsOnlyPublished ==
    /\ [][response'.op = "publish" =>
          \A c \in AdminCallers, id \in ProfileIds :
            (/\ PostPublish(c, id)
             /\ AdminGate(c) = "next"
             /\ FindById(id) # 0
             /\ profiles[id].status = "approved")
                => /\ response'.outcome = "ok"
                   /\ profiles' = [profiles EXCEPT ![id].published = ~profiles[id].published]]_vars
    /\ [](\A i \in 1..Len(profiles) :
            profiles[i].status = "approved"
                => PublishApply(PublishApply(profiles[i])) = profiles[i])

\* C8 witness: a toggle succeeded and left an approved, unpublished profile.
C8_Witness ==
    /\ response.op = "publish"
    /\ response.outcome = "ok"
    /\ response.docs[1].status = "approved"
    /\ response.docs[1].published = FALSE

\* C16: a profile carries a rejection reason only while its status is rejected:
\* in every state reached by review and edit requests, a profile whose status
\* is not rejected has no rejection reason.
C16_ReasonOnlyWhileRejected ==
    \A i \in 1..Len(profiles) :
        profiles[i].status # "rejected" => profiles[i].rejectionReason = Undefined

\* C21: a listing request whose page number is zero or negative is answered as
\* page 1: the number of skipped records is not negative and the answer is the
\* first page of the matching profiles.
C21_NonPositivePageIsFirst ==
    [][response'.op = "browse" =>
        \A q \in Queries :
            (GetBrowse(q) /\ q.page # Undefined /\ ValueOf(q.page) <= 0) =>
                /\ (PageOf(q) - 1) * BrowseLimit >= 0
                /\ response'.outcome = "ok"
                /\ response'.docs =
                      Find(SelectSeq(profiles, LAMBDA d : BrowseFilter(q, d)),
                           0, BrowseLimit)]_vars

(* The request in the step repeats the review that produced the last response:
   same action, same administrator, same profile and same reason. *)
RepeatsLastReview(id, r) ==
    /\ response.op = response'.op
    /\ response.outcome = "ok"
    /\ response.caller = response'.caller
    /\ response.docs[1].id = id
    /\ response'.op = "reject" =>
          IF r = Undefined THEN response.docs[1].rejectionReason = Undefined
          ELSE /\ response.docs[1].rejectionReason # Undefined
               /\ IsTrimOf(ValueOf(response.docs[1].rejectionReason), ValueOf(r))

\* C23: an approve or reject by an administrator on an existing profile is
\* accepted whatever the profile's status is and yields approved or rejected;
\* and a review that repeats the one just applied (same action, administrator,
\* profile and reason) leaves status, published, reviewer and rejection reason
\* as the first application left them.
C23_ReviewIdempotent ==
    [][response'.op \in {"approve", "reject"} =>
        \A id \in ProfileIds, r \in ReasonInputs :
            (/\ PostReview(response'.caller, id, response'.op, r)
             /\ AdminGate(response'.caller) = "next"
             /\ FindById(id) # 0)
                => /\ response'.outcome = "ok"
                   /\ profiles'[id].status =
                         (IF response'.op = "approve" THEN "approved" ELSE "rejected")
                   /\ RepeatsLastReview(id, r) =>
                         /\ profiles'[id].status = profiles[id].status
                         /\ profiles'[id].published = profiles[id].published
                         /\ profiles'[id].approvedBy = profiles[id].approvedBy
                         /\ profiles'[id].rejectionReason
                               = profiles[id].rejectionReason]_vars

\* C23 witness: a profile that had been approved and viewed has just been
\* rejected with a reason, so the review was accepted from a status other
\* than submitted.
C23_Witness ==
    /\ response.op = "reject"
    /\ response.outcome = "ok"
    /\ response.docs[1].views > 0
    /\ response.docs[1].status = "rejected"
    /\ response.docs[1].rejectionReason # Undefined

\* C25: every profile is created with status submitted and published false,
\* and after every create, edit, review and toggle request each profile's
\* status is submitted, approved or rejected, never draft or published.
C25_StatusesReached ==
    [][/\ \A i \in 1..Len(profiles') :
             profiles'[i].status \in {"submitted", "approved", "rejected"}
       /\ (response'.op = "create" /\ response'.outcome = "ok") =>
             /\ Len(profiles') = Len(profiles) + 1
             /\ profiles'[Len(profiles')].status = "submitted"
             /\ profiles'[Len(profiles')].published = FALSE]_vars

\* C25 witness: a profile has just been created as submitted and unpublished
\* while an older profile has been reviewed.
C25_Witness ==
    /\ response.op = "create"
    /\ response.outcome = "ok"
    /\ Len(profiles) = 2
    /\ profiles[2].status = "submitted" /\ ~profiles[2].published
    /\ profiles[1].status \in {"approved", "rejected"}
----------------------------------------------------------------------------
(* Photo operations, one request at a time *)

ValidBody == Body("female", Lahore, 25)
InvalidBody == Body("female", Karachi, 17)
PhotoIds == 1..(MaxUploads + 1)

NextPhoto ==
    \/ \E c \in Owners, body \in {ValidBody, InvalidBody}, n \in 0..MaxFiles :
            PostCreate(c, body, n, FALSE)
    \/ \E c \in Owners, body \in {ValidBody, InvalidBody}, n \in 0..MaxFiles :
            PostEdit(c, body, n, FALSE)
    \/ \E c \in Owners, pid \in PhotoIds : DeletePhoto(c, pid)
    \/ \E c \in Owners, pid \in PhotoIds : PutPrimary(c, pid)

SpecPhoto == Init /\ [][NextPhoto]_vars

PrimaryCount(photos) == Cardinality({k \in 1..Len(photos) : photos[k].isPrimary})

\* C2: after any sequence of create, edit (with or without uploads), remove-photo
\* and set-primary operations, every profile has at most one primary photo.
C2_AtMostOnePrimary ==
    \A i \in 1..Len(profiles) : PrimaryCount(profiles[i].photos) <= 1

\* C2 witness: a profile holds photos of two uploads, one of them primary, after
\* a set-primary request.
C2_Witness ==
    /\ response.op = "setPrimary"
    /\ response.outcome = "ok"
    /\ \E i \in 1..Len(profiles) :
          /\ Len(profiles[i].photos) >= 2
          /\ PrimaryCount(profiles[i].photos) = 1
          /\ profiles[i].photos[2].isPrimary

\* C15: editProfile, removePhoto and setPrimaryPhoto called by U touch only the
\* profile owned by U: every profile of another user is the same document after
\* the request as before it, whatever photo identifier U supplies, and no
\* profile appears or disappears.
C15_OwnerScoped ==
    [][response'.op \in {"edit", "deletePhoto", "setPrimary"} =>
        /\ Len(profiles') = Len(profiles)
        /\ \A i \in 1..Len(profiles) :
              profiles[i].userId # response'.caller => profiles'[i] = profiles[i]]_vars

\* C15 witness: u1 and u2 both hold photos, and u1's remove-photo request with an
\* identifier outside u1's collection has just been answered not-found.
C15_Witness ==
    /\ response.op = "deletePhoto"
    /\ response.caller = "u1"
    /\ response.outcome = "photo_not_found"
    /\ \E i, j \in 1..Len(profiles) :
          /\ profiles[i].userId = "u1" /\ Len(profiles[i].photos) > 0
          /\ profiles[j].userId = "u2" /\ Len(profiles[j].photos) > 0

\* C17: in every state reached by create, edit, remove-photo and set-primary
\* requests, a profile whose photo collection is not empty (so that an upload
\* has occurred) has exactly one primary photo.
C17_ExactlyOnePrimary ==
    \A i \in 1..Len(profiles) :
        Len(profiles[i].photos) > 0 => PrimaryCount(profiles[i].photos) = 1

\* C18: a setPrimaryPhoto request that reaches the handler with an identifier
\* that is not in the caller's photo collection fails with not-found; it does
\* not report success.
C18_UnknownPrimaryNotFound ==
    [][response'.op = "setPrimary" =>
        \A pid \in PhotoIds :
            (/\ PutPrimary(response'.caller, pid)
             /\ OwnerGate(response'.caller) = "next"
             /\ FindOneByUser(response'.caller) # 0
             /\ PhotoIndex(profiles[FindOneByUser(response'.caller)].photos, pid) = 0)
                => response'.outcome = "photo_not_found"]_vars

\* C19: a removePhoto request that reaches the handler with an identifier that
\* is not in the caller's photo collection fails with not-found, leaves every
\* photo collection (members, order, isPrimary flags) as it was and issues no
\* delete to the image store.
C19_UnknownRemoveNotFound ==
    [][response'.op = "deletePhoto" =>
        \A pid \in PhotoIds :
            (/\ DeletePhoto(response'.caller, pid)
             /\ OwnerGate(response'.caller) = "next"
             /\ FindOneByUser(response'.caller) # 0
             /\ \A k \in 1..Len(profiles[FindOneByUser(response'.caller)].photos) :
                   profiles[FindOneByUser(response'.caller)].photos[k].id # pid)
                => /\ response'.outcome = "photo_not_found"
                   /\ profiles' = profiles
                   /\ deleted' = deleted]_vars

\* C19 witness: u1 holds two photos, the first primary, none deleted, and a
\* remove-photo request of u1 has just been answered not-found.
C19_Witness ==
    /\ response.op = "deletePhoto"
    /\ response.caller = "u1"
    /\ response.outcome = "photo_not_found"
    /\ deleted = {}
    /\ \E i \in 1..Len(profiles) :
          /\ profiles[i].userId = "u1"
          /\ Len(profiles[i].photos) = 2
          /\ profiles[i].photos[1].isPrimary

\* C20: an editProfile that succeeds with n > 0 uploads keeps every stored
\* photo, in order and with its isPrimary flag, and appends the n new photos
\* after them in upload order; the first new photo is primary exactly when the
\* collection was empty before, and every other new photo is non-primary.
C20_EditAppendsPhotos ==
    [][(response'.op = "edit" /\ response'.outcome = "ok" /\ nextFile' > nextFile) =>
        LET i == CHOOSE j \in 1..Len(profiles) :
                    /\ profiles[j].userId = response'.caller
                    /\ \A k \in 1..(j - 1) : profiles[k].userId # response'.caller
            old == profiles[i].photos
            new == profiles'[i].photos
            n == nextFile' - nextFile
        IN  /\ Len(new) = Len(old) + n
            /\ \A k \in 1..Len(old) : new[k] = old[k]
            /\ \A k \in 1..n :
                  /\ new[Len(old) + k].id = nextFile + k
                  /\ new[Len(old) + k].isPrimary = (Len(old) = 0 /\ k = 1)]_vars

\* C20 witness: an edit has just appended a second, non-primary photo behind a
\* stored primary one.
C20_Witness ==
    /\ response.op = "edit"
    /\ response.outcome = "ok"
    /\ Len(response.docs[1].photos) = 2
    /\ response.docs[1].photos[1].isPrimary
    /\ ~response.docs[1].photos[2].isPrimary
    /\ response.docs[1].photos[2].id = nextFile

\* C28: whenever a createProfile or editProfile request has received uploaded
\* images and ends without storing them in a profile, a delete has been issued
\* to the image store for every image the request uploaded.
C28_NoOrphanedUploads ==
    [][(response'.op \in {"create", "edit"} /\ response'.outcome # "ok")
          => (uploaded' \ uploaded) \subseteq deleted']_vars
----------------------------------------------------------------------------
(* Payment documents and routes *)

PaymentStatuses == {"pending", "completed", "failed", "cancelled"}
Terminal == {"completed", "failed", "cancelled"}
NoStatus == "undefined"          \* req.body.status is missing

(* paymentValidation: the rule on the field the model carries *)
paymentValidation(amount) == amount >= 1

(* new Payment(paymentData) with the schema defaults *)
NewPayment(id, u, amount) ==
    [id |-> id, userId |-> u, amount |-> amount,
     status |-> "pending",
     verifiedBy |-> NoUser, verifiedAt |-> FALSE,
     verificationNotes |-> Undefined]

(* Payment.findById(id): 0 if none *)
FindPaymentById(id) == IF id \in 1..Len(payments) THEN id ELSE 0

(* Faulty variant: the query does not restrict the owner *)
FindCancellable_AnyOwner(id, u) ==
    IF /\ id \in 1..Len(payments)
       /\ payments[id].status = "pending"
    THEN id ELSE 0

(* Payment.findOne({ _id, userId, status: 'pending' }): 0 if none *)
FindCancellable(id, u) ==
    IF /\ id \in 1..Len(payments)
       /\ payments[id].userId = u
       /\ payments[id].status = "pending"
    THEN id ELSE 0

(* POST /payments/submit; n is 1 when a receipt image is attached *)
SubmitOutcome(c, amount, fail) ==
    IF ~isAuthenticated(c) THEN "login"
    ELSE IF ~paymentValidation(amount) THEN "validation_error"
    ELSE IF SessionOf(c).isPaid THEN "already_paid"
    ELSE IF fail THEN "error"
    ELSE "ok"

PostSubmit(c, amount, n, fail) ==
    LET out == SubmitOutcome(c, amount, fail)
        sent == out # "login"
    IN  /\ Len(payments) < MaxPayments
        /\ nextFile + n <= MaxUploads
        /\ nextFile' = IF sent THEN nextFile + n ELSE nextFile
        /\ uploaded' = IF sent THEN uploaded \cup FileSet(n) ELSE uploaded
        /\ deleted' = IF out \in {"validation_error", "error"}
                      THEN deleted \cup FileSet(n) ELSE deleted
        /\ payments' = IF out = "ok"
                       THEN Append(payments, NewPayment(Len(payments) + 1, c, amount))
                       ELSE payments
        /\ Respond("submit", c, out, <<>>)
        /\ UNCHANGED <<users, session, profiles, reqs>>

(* The schema stores verificationNotes trimmed. *)
StoredNotes(notes) ==
    IF notes = Undefined THEN Undefined ELSE Some(Trim(ValueOf(notes)))

(* /admin/verify/:id: the assignments to the loaded payment *)
VerifyApply(doc, status, notes, admin) ==
    [doc EXCEPT !.status = status, !.verifiedBy = admin, !.verifiedAt = TRUE,
                !.verificationNotes = StoredNotes(notes)]

(* Faulty variant: the requested status is not checked *)
VerifyOutcome_NoStatusCheck(c, id, status, fail) ==
    IF AdminGate(c) # "next" THEN AdminGate(c)
    ELSE IF FindPaymentById(id) = 0 THEN "not_found"
    ELSE IF fail = "user" /\ status = "completed" THEN "error"
    ELSE IF fail = "payment" THEN "error"
    ELSE "ok"

(* fail is "none", "user" (user.save() throws) or "payment" (payment.save() throws) *)
VerifyOutcome(c, id, status, fail) ==
    IF AdminGate(c) # "next" THEN AdminGate(c)
    ELSE IF FindPaymentById(id) = 0 THEN "not_found"
    ELSE IF status \notin {"completed", "failed", "cancelled"} THEN "invalid_status"
    ELSE IF fail = "user" /\ status = "completed" THEN "error"
    ELSE IF fail = "payment" THEN "error"
    ELSE "ok"

(* Faulty variant: the owner is marked paid whatever the new status is *)
VerifyUsers_AnyStatus(doc, status) ==
    [users EXCEPT ![doc.userId].isPaid = TRUE]

(* if (status === 'completed') { user.isPaid = true; await user.save() } *)
VerifyUsers(doc, status) ==
    IF status = "completed"
    THEN [users EXCEPT ![doc.userId].isPaid = TRUE]
    ELSE users

(* The user document is saved before the payment document. *)
PostVerify(c, id, status, notes, fail) ==
    LET out == VerifyOutcome(c, id, status, fail)
        pastChecks == out = "ok" \/ (out = "error" /\ fail = "payment")
    IN  /\ users' = IF pastChecks THEN VerifyUsers(payments[id], status) ELSE users
        /\ payments' = IF out = "ok"
                       THEN [payments EXCEPT ![id] = VerifyApply(@, status, notes, c)]
                       ELSE payments
        /\ Respond("verify", c, out, <<>>)
        /\ UNCHANGED <<session, profiles, uploaded, deleted, nextFile, reqs>>

(* POST /payments/cancel/:id *)
CancelApply(doc) == [doc EXCEPT !.status = "cancelled"]

CancelOutcome(c, id) ==
    IF ~isAuthenticated(c) THEN "login"
    ELSE IF FindCancellable(id, c) = 0 THEN "not_found"
    ELSE "ok"

PostCancel(c, id) ==
    LET out == CancelOutcome(c, id)
    IN  /\ payments' = IF out = "ok"
                       THEN [payments EXCEPT ![id] = CancelApply(@)]
                       ELSE payments
        /\ Respond("cancel", c, out, <<>>)
        /\ UNCHANGED <<users, session, profiles, uploaded, deleted, nextFile, reqs>>

(* POST /admin/users/:id/status: each field is set when the body carries it *)
StatusApply(doc, isActive, isPaid, role) ==
    [doc EXCEPT !.isActive = IF isActive # Undefined THEN ValueOf(isActive) ELSE @,
                !.isPaid = IF isPaid # Undefined THEN ValueOf(isPaid) ELSE @,
                !.role = IF role # Undefined THEN ValueOf(role) ELSE @]

UserStatusOutcome(c, uid) ==
    IF AdminGate(c) # "next" THEN AdminGate(c)
    ELSE IF uid \notin Users THEN "not_found"
    ELSE "ok"

PostUserStatus(c, uid, isActive, isPaid, role) ==
    LET out == UserStatusOutcome(c, uid)
    IN  /\ users' = IF out = "ok"
                    THEN [users EXCEPT ![uid] = StatusApply(@, isActive, isPaid, role)]
                    ELSE users
        /\ Respond("userStatus", c, out, <<>>)
        /\ UNCHANGED <<session, profiles, payments, uploaded, deleted, nextFile, reqs>>

(* Registered accounts, nobody has paid yet; all are logged in. *)
InitPay ==
    /\ users = [u \in Users |->
                  UserDoc(IF u \in Admins THEN "admin" ELSE "user", FALSE)]
    /\ session = [u \in Users |->
                  [role |-> IF u \in Admins THEN "admin" ELSE "user",
                   isPaid |-> FALSE, profileCompleted |-> FALSE]]
    /\ InitStore

PaymentIds == 1..(MaxPayments + 1)
RequestedStatuses == PaymentStatuses \cup {NoStatus}
NotesInputs == {Some(<<"n">>)}
Amounts == {0, 500}

NextPay ==
    \/ \E c \in Owners, amount \in Amounts : PostSubmit(c, amount, 0, FALSE)
    \/ \E c \in AdminCallers, id \in PaymentIds, st \in RequestedStatuses,
          notes \in NotesInputs : PostVerify(c, id, st, notes, "none")
    \/ \E c \in Owners, id \in PaymentIds : PostCancel(c, id)
    \/ \E c \in AdminCallers, uid \in Owners \cup {"ghost"},
          paid \in {Undefined, Some(TRUE), Some(FALSE)} :
            PostUserStatus(c, uid, Undefined, paid, Undefined)

SpecPay == InitPay /\ [][NextPay]_vars

\* C9: once a payment is completed, failed or cancelled, no verifyPayment or
\* cancelPayment changes its status again.
C9_TerminalIsFinal ==
    [][\A i \in 1..Len(payments) :
          payments[i].status \in Terminal
              => payments'[i].status = payments[i].status]_vars

HasCompletedPayment(u) ==
    \E i \in 1..Len(payments) :
        payments[i].userId = u /\ payments[i].status = "completed"

\* C10: a user's stored paid flag is true if and only if one of the user's
\* payments has status completed.
C10_PaidIffCompleted ==
    \A u \in Users : users[u].isPaid <=> HasCompletedPayment(u)

\* C11: a successful verifyPayment with status completed sets the paid flag of
\* the payment's owner; with failed or cancelled it leaves the owner's flag as
\* it was; and no verifyPayment, whatever its outcome, changes the paid flag of
\* a user who is not the owner of the addressed payment.
C11_VerifyPaidFlag ==
    [][response'.op = "verify" =>
        \A id \in PaymentIds, st \in RequestedStatuses, notes \in NotesInputs :
            PostVerify(response'.caller, id, st, notes, "none") =>
                /\ (response'.outcome = "ok" /\ st = "completed")
                        => users'[payments[id].userId].isPaid
                /\ (response'.outcome = "ok" /\ st \in {"failed", "cancelled"})
                        => users'[payments[id].userId].isPaid
                              = users[payments[id].userId].isPaid
                /\ \A v \in Users :
                      (FindPaymentById(id) = 0 \/ v # payments[id].userId)
                          => users'[v].isPaid = users[v].isPaid]_vars

\* C11 witness: u1's payment has just been verified as completed and u1 is
\* paid, while u2, whose payment was verified as failed, is not.
C11_Witness ==
    /\ response.op = "verify"
    /\ response.outcome = "ok"
    /\ \E i, j \in 1..Len(payments) :
          /\ payments[i].userId = "u1" /\ payments[i].status = "completed"
          /\ payments[j].userId = "u2" /\ payments[j].status = "failed"
    /\ users["u1"].isPaid
    /\ ~users["u2"].isPaid

\* C12: a verifyPayment by an administrator on an existing payment with a
\* requested status outside completed, failed, cancelled (pending, or no status
\* at all) is rejected as an invalid argument, and the payment document (status
\* and verification metadata) and the owner's paid flag stay as they were.
C12_InvalidStatusRejected ==
    [][response'.op = "verify" =>
        \A id \in PaymentIds, st \in RequestedStatuses \ Terminal,
           notes \in NotesInputs :
            (/\ PostVerify(response'.caller, id, st, notes, "none")
             /\ AdminGate(response'.caller) = "next"
             /\ FindPaymentById(id) # 0)
                => /\ response'.outcome = "invalid_status"
                   /\ payments' = payments
                   /\ users' = users]_vars

\* C12 witness: an administrator's verify request on a pending payment has
\* just been rejected for its status, and the payment is still unverified.
C12_Witness ==
    /\ response.op = "verify"
    /\ response.outcome = "invalid_status"
    /\ response.caller \in Admins
    /\ \E i \in 1..Len(payments) :
          /\ payments[i].status = "pending"
          /\ payments[i].verifiedBy = NoUser
          /\ ~users[payments[i].userId].isPaid

\* C13: cancelPayment(id) by a logged-in user U succeeds, leaving the payment
\* cancelled, exactly when the payment exists, is owned by U and is pending;
\* when it is missing, owned by someone else or not pending, the request ends
\* in the one not-found outcome and no payment changes.
C13_CancelOwnPending ==
    [][response'.op = "cancel" =>
        \A id \in PaymentIds :
            (PostCancel(response'.caller, id) /\ isAuthenticated(response'.caller)) =>
                IF /\ id \in 1..Len(payments)
                   /\ payments[id].userId = response'.caller
                   /\ payments[id].status = "pending"
                THEN /\ response'.outcome = "ok"
                     /\ payments'[id].status = "cancelled"
                ELSE /\ response'.outcome = "not_found"
                     /\ payments' = payments]_vars

\* C13 witness: u2 has just tried to cancel while the only payments are pending
\* payments of u1, and was answered not-found.
C13_Witness ==
    /\ response.op = "cancel"
    /\ response.caller = "u2"
    /\ response.outcome = "not_found"
    /\ Len(payments) > 0
    /\ \A i \in 1..Len(payments) :
          payments[i].userId = "u1" /\ payments[i].status = "pending"
----------------------------------------------------------------------------
(* Payment verification with failing document writes *)

SaveFaults == {"none", "user", "payment"}

NextVerifyFault ==
    \/ \E c \in Owners : PostSubmit(c, 500, 0, FALSE)
    \/ \E c \in Admins, id \in PaymentIds, st \in Terminal, notes \in NotesInputs,
          fail \in SaveFaults : PostVerify(c, id, st, notes, fail)
    \/ \E c \in Owners, id \in PaymentIds : PostCancel(c, id)

SpecVerifyFault == InitPay /\ [][NextVerifyFault]_vars

\* C22: when a verifyPayment(id, completed) of an administrator fails between
\* its two document writes (the first write succeeded, the second threw), the
\* payment is completed and its owner's paid flag is false.
C22_FailureLeavesCompletedUnpaid ==
    [][(response'.op = "verify" /\ response'.outcome = "error") =>
        \A id \in PaymentIds, notes \in NotesInputs :
            (/\ PostVerify(response'.caller, id, "completed", notes, "payment")
             /\ FindPaymentById(id) # 0)
                => /\ payments'[id].status = "completed"
                   /\ ~users'[payments[id].userId].isPaid]_vars
----------------------------------------------------------------------------
(* Sessions: login, logout and role changes next to the administrator routes *)

(* POST /auth/login by the browser of account c with c's email; match is the
   result of comparePassword *)
LoginOutcome(c, match) ==
    IF isAuthenticated(c) THEN "dashboard"
    ELSE IF ~users[c].isActive THEN "deactivated"
    ELSE IF ~match THEN "invalid_credentials"
    ELSE "ok"

PostLogin(c, match) ==
    LET out == LoginOutcome(c, match)
    IN  /\ session' = IF out = "ok" THEN [session EXCEPT ![c] = SessionFor(c)]
                      ELSE session
        /\ Respond("login", c, out, <<>>)
        /\ UNCHANGED <<users, profiles, payments, uploaded, deleted, nextFile, reqs>>

(* GET /auth/logout: req.session.destroy *)
GetLogout(c) ==
    /\ session' = [session EXCEPT ![c] = NoSession]
    /\ Respond("logout", c, "ok", <<>>)
    /\ UNCHANGED <<users, profiles, payments, uploaded, deleted, nextFile, reqs>>

(* u2 has paid and u3 has not; both are logged in, as is the administrator a1;
   u1 has no session yet. *)
InitAuth ==
    /\ users = [u \in Users |->
                  IF u \in Admins THEN UserDoc("admin", FALSE)
                  ELSE UserDoc("user", u \in Owners)]
    /\ session = [u \in Users |->
                  IF u = "u1" THEN NoSession
                  ELSE [role |-> IF u \in Admins THEN "admin" ELSE "user",
                        isPaid |-> u \in Owners, profileCompleted |-> FALSE]]
    /\ InitStore

AuthCallers == {"u1", "a1", Anon}
AuthAccounts == {"u1", "a1"}
AdminOps == {"approve", "reject", "other", "publish", "verify"}

NextAuth ==
    \/ \E c \in AuthAccounts, match \in BOOLEAN : PostLogin(c, match)
    \/ \E c \in AuthAccounts : GetLogout(c)
    \/ \E c \in AuthCallers, uid \in AuthAccounts, role \in {"admin", "user"} :
            PostUserStatus(c, uid, Undefined, Undefined, Some(role))
    \/ PostCreate("u2", ValidBody, 0, FALSE)
    \/ PostSubmit("u3", 500, 0, FALSE)
    \/ \E c \in AuthCallers, id \in 1..2, action \in {"approve", "reject"} :
            PostReview(c, id, action, Undefined)
    \/ \E c \in AuthCallers, id \in 1..2 : PostPublish(c, id)
    \/ \E c \in AuthCallers, id \in PaymentIds, notes \in NotesInputs :
            PostVerify(c, id, "completed", notes, "none")

SpecAuth == InitAuth /\ [][NextAuth]_vars

\* C14: reviewProfile, togglePublish and verifyPayment take effect only when
\* the caller's session role is admin: a request of one of the three by a caller
\* without a session, or whose session role is not admin, changes no profile
\* (status, published, reviewer, rejection reason), no payment and no user's
\* paid flag.
C14_AdminOnly ==
    [][(response'.op \in AdminOps /\ SessionOf(response'.caller).role # "admin")
          => /\ profiles' = profiles
             /\ payments' = payments
             /\ \A u \in Users : users'[u].isPaid = users[u].isPaid]_vars

\* C14 witness: u1, promoted to admin in the user store after logging in, is
\* denied an administrator request because the session still says user, while
\* a submitted profile and a pending payment wait for review.
C14_Witness ==
    /\ response.op \in AdminOps
    /\ response.caller = "u1"
    /\ response.outcome = "denied"
    /\ users["u1"].role = "admin"
    /\ session["u1"].role = "user"
    /\ \E i \in 1..Len(profiles) : profiles[i].status = "submitted"
    /\ \E i \in 1..Len(payments) : payments[i].status = "pending"
----------------------------------------------------------------------------
(* The paid flag in the store and in the session: payments, the user-status
   route, login and logout next to create and edit *)

PaidBodies == {Body("female", Lahore, 25), Body("male", Karachi, 40)}

NextPaid ==
    \/ \E c \in Owners : PostSubmit(c, 500, 0, FALSE)
    \/ \E id \in PaymentIds, notes \in NotesInputs :
            PostVerify("a1", id, "completed", notes, "none")
    \/ \E uid \in Owners, paid \in BOOLEAN :
            PostUserStatus("a1", uid, Undefined, Some(paid), Undefined)
    \/ PostLogin("u1", TRUE)
    \/ GetLogout("u1")
    \/ \E body \in PaidBodies : PostCreate("u1", body, 0, FALSE)
    \/ \E body \in PaidBodies : PostEdit("u1", body, 0, FALSE)

SpecPaid == InitPay /\ [][NextPaid]_vars

\* C24: a createProfile or editProfile request of a logged-in user whose stored
\* paid flag is false at the time of the request creates no profile and
\* changes no profile, whatever the session says about payment.
C24_UnpaidCannotWrite ==
    [][(/\ response'.op \in {"create", "edit"}
        /\ isAuthenticated(response'.caller)
        /\ ~users[response'.caller].isPaid)
          => /\ profiles' = profiles
             /\ response'.outcome = "payments"]_vars

\* C24 witness: u1 owns a profile and the session still says paid, but the
\* stored flag is false, and u1's edit has just been sent to the payment page.
C24_Witness ==
    /\ response.op = "edit"
    /\ response.caller = "u1"
    /\ response.outcome = "payments"
    /\ session["u1"].isPaid
    /\ ~users["u1"].isPaid
    /\ \E i \in 1..Len(profiles) : profiles[i].userId = "u1"

\* C29: a submit request of a user whose stored paid flag is true creates no
\* payment record, also when the user's session was opened before the payment
\* was verified.
C29_PaidCannotSubmit ==
    [][(response'.op = "submit" /\ users[response'.caller].isPaid)
          => /\ payments' = payments
             /\ response'.outcome # "ok"]_vars
----------------------------------------------------------------------------
(* Interleaved requests: two requests in flight, each advancing one
   document-store call at a time *)

NextConc ==
    \/ \E s \in Slots, c \in Owners, body \in {ValidBody, InvalidBody}, n \in 0..1 :
            CreateFind(s, c, body, n)
    \/ \E s \in Slots : CreateSave(s, FALSE)
    \/ \E s \in Slots : CreateUpdate(s)

SpecConc == Init /\ [][NextConc]_vars

ProfilesOf(u) == {i \in 1..Len(profiles) : profiles[i].userId = u}

(* Lifecycle requests of the owner and the administrator on one profile, each
   split at its await between the load and the save *)
NextRace ==
    \/ PostCreate("u1", ValidBody, 0, FALSE)
    \/ \E s \in Slots, body \in PaidBodies : EditFind(s, "u1", body)
    \/ \E s \in Slots : EditSave(s)
    \/ \E s \in Slots, id \in 1..2, action \in {"approve", "reject"} :
            ReviewFind(s, "a1", id, action, Undefined)
    \/ \E s \in Slots : ReviewSave(s)
    \/ \E s \in Slots, id \in 1..2 : PublishFind(s, "a1", id)
    \/ \E s \in Slots : PublishSave(s)

SpecRace == Init /\ [][NextRace]_vars

\* C26: in every reachable state a published profile is approved, also when
\* the owner's edit and the administrator's toggle or review of the same
\* profile interleave between their loads and their saves.
C26_PublishedImpliesApproved ==
    \A i \in 1..Len(profiles) :
        profiles[i].published => profiles[i].status = "approved"

(* POST /payments/admin/verify/:id up to the status test, after
   "await Payment.findById" *)
VerifyFind(s, c, id, status, notes) ==
    LET out == VerifyOutcome(c, id, status, "none")
    IN  /\ reqs[s] = Idle
        /\ IF out = "ok"
           THEN Hold(s, "verify", c, <<status, notes>>, payments[id])
                /\ UNCHANGED response
           ELSE Respond("verify", c, out, <<>>) /\ UNCHANGED reqs
        /\ UNCHANGED <<users, session, profiles, payments, uploaded, deleted, nextFile>>

(* if (status === 'completed') { User.findById; user.isPaid = true; user.save } *)
VerifyUser(s) ==
    LET r == reqs[s]
    IN  /\ At(s, "verify", "save")
        /\ users' = VerifyUsers(r.doc, r.body[1])
        /\ Resume(s, "payment")
        /\ UNCHANGED <<session, profiles, payments, uploaded, deleted, nextFile, response>>

(* "await payment.save()" of the verify route *)
VerifyPayment(s) ==
    LET r == reqs[s]
        i == r.doc.id
    IN  /\ At(s, "verify", "payment")
        /\ payments' = [payments EXCEPT
                           ![i] = SaveChanged(@, r.doc,
                                      VerifyApply(r.doc, r.body[1], r.body[2], r.caller))]
        /\ Respond("verify", r.caller, "ok", <<>>)
        /\ Finish(s)
        /\ UNCHANGED <<users, session, profiles, uploaded, deleted, nextFile>>

(* POST /payments/cancel/:id up to "await Payment.findOne" *)
CancelFind(s, c, id) ==
    LET out == CancelOutcome(c, id)
    IN  /\ reqs[s] = Idle
        /\ IF out = "ok"
           THEN Hold(s, "cancel", c, <<>>, payments[id]) /\ UNCHANGED response
           ELSE Respond("cancel", c, out, <<>>) /\ UNCHANGED reqs
        /\ UNCHANGED <<users, session, profiles, payments, uploaded, deleted, nextFile>>

(* payment.status = 'cancelled'; await payment.save() *)
CancelSave(s) ==
    LET r == reqs[s]
        i == r.doc.id
    IN  /\ At(s, "cancel", "save")
        /\ payments' = [payments EXCEPT
                           ![i] = SaveChanged(@, r.doc, CancelApply(r.doc))]
        /\ Respond("cancel", r.caller, "ok", <<>>)
        /\ Finish(s)
        /\ UNCHANGED <<users, session, profiles, uploaded, deleted, nextFile>>

(* The administrator's verification as completed and the owners' cancellation,
   each split at its awaits *)
NextPayRace ==
    \/ \E c \in Owners : PostSubmit(c, 500, 0, FALSE)
    \/ \E s \in Slots, id \in PaymentIds, notes \in NotesInputs :
            VerifyFind(s, "a1", id, "completed", notes)
    \/ \E s \in Slots : VerifyUser(s)
    \/ \E s \in Slots : VerifyPayment(s)
    \/ \E s \in Slots, c \in Owners, id \in PaymentIds : CancelFind(s, c, id)
    \/ \E s \in Slots : CancelSave(s)

SpecPayRace == InitPay /\ [][NextPayRace]_vars

\* C27: when no request is in flight any more, no payment is cancelled and at
\* the same time carries the mark of a verification as completed that set its
\* owner's paid flag, also when that verification and the owner's cancel both
\* loaded the payment as pending before either saved.
C27_NoCancelledButPaid ==
    (\A s \in Slots : reqs[s] = Idle) =>
        \A i \in 1..Len(payments) :
            (payments[i].status = "cancelled" /\ payments[i].verifiedBy # NoUser)
                => ~users[payments[i].userId].isPaid

(* Public views split at their await, among whole lifecycle requests *)
NextViewRace ==
    \/ \E c \in Owners : PostCreate(c, ValidBody, 0, FALSE)
    \/ \E c \in Owners, body \in PaidBodies : PostEdit(c, body, 0, FALSE)
    \/ \E id \in 1..2, action \in {"approve", "reject"} :
            PostReview("a1", id, action, Undefined)
    \/ \E id \in 1..2 : PostPublish("a1", id)
    \/ \E s \in Slots, id \in ProfileIds : ViewFind(s, id)
    \/ \E s \in Slots : ViewSave(s)

SpecViewRace == Init /\ [][NextViewRace]_vars

\* C30: each successful public view raises the stored view counter of the
\* profile by exactly one and leaves its status and published flag as the
\* lifecycle requests left them, in any interleaving of views with each other
\* and with edit, review and toggle requests.
C30_ViewAddsOne ==
    [][(response'.op = "view" /\ response'.outcome = "ok") =>
        LET i == response'.docs[1].id
        IN  /\ profiles'[i].views = profiles[i].views + 1
            /\ profiles'[i].status = profiles[i].status
            /\ profiles'[i].published = profiles[i].published]_vars

\* C4: there is at most one profile document per owning user, also when two
\* createProfile requests of one user both run findOne before either saves.
C4_OneProfilePerUser ==
    \A u \in Users : Cardinality(ProfilesOf(u)) <= 1
====
